---- MODULE Spec2Model ----
(***************************************************************************)
(* Model of the extraction and scoring core of the stock analyser:         *)
(*   backend/app/scraper.py  IrBankScraper.scrape / _parse_value           *)
(*   backend/app/scoring.py  calculate_score                               *)
(*   backend/app/models.py   FinancialData / StockScore                    *)
(*   backend/app/main.py     analyze_stock                                 *)
(*                                                                         *)
(* Text is a sequence of glyphs.  An ASCII character is the one-character  *)
(* string itself, any other character is "U" followed by its code point    *)
(* in hexadecimal ("U5E74" "U5EA6" is the year-axis marker of line 92).    *)
(*                                                                         *)
(* A number is a decimal [m |-> mantissa, e |-> exponent] standing for     *)
(* m * 10^e, so 6.99 is [m |-> 699, e |-> -2] and a value carrying the     *)
(* 10^8 unit glyph stays inside the range of the integers.  np.polyfit     *)
(* (scoring.py line 29) is modelled by the exact least-squares solution.   *)
(***************************************************************************)
EXTENDS Integers, Sequences, FiniteSets, TLC

VARIABLES
    request,      \* the ticker the caller asked for
    document,     \* the page the site serves for it: a sequence of tables
    cache,        \* the cache directory: ticker -> cache file
    clock,        \* time.time(), in seconds
    fetches,      \* how many times requests.get was called
    table,        \* scrape's table: the table the locator selected (a sequence of rows)
    header_map,   \* scrape's header_map: metric -> 0-based column index
    data,         \* the FinancialData scrape returned, or given to calculate_score
    score,        \* the StockScore calculate_score returned
    cell_text,    \* the cell text given to _parse_value
    value,        \* the number _parse_value returned
    pc            \* "request" -> "have_data" | "error";  "have_data" -> "scored"
                  \* | "score_error";  "parse" -> "parsed"

vars == <<request, document, cache, clock, fetches, table, header_map, data,
          score, cell_text, value, pc>>

----------------------------------------------------------------------------
(* Bounds of the model *)

\* longest metric sequence / fiscal-year list given to calculate_score
MaxLen == 6
\* most cells in a header row, and in a data row
MaxCols == 3
\* most data rows of a table
MaxRows == 2

\* the longest cell text enumerated glyph by glyph
MaxText == 3

\* requests are made until this many fetched the page
MaxFetches == 3

\* the clock runs for this many days and this many seconds
MaxDays == 2

MaxSlack == 2

----------------------------------------------------------------------------
(* Generic helpers *)

Min(a, b) == IF a <= b THEN a ELSE b

RECURSIVE Pow10(_)
Pow10(k) == IF k <= 0 THEN 1 ELSE 10 * Pow10(k - 1)

Reverse(s) == [i \in 1..Len(s) |-> s[Len(s) + 1 - i]]

\* the empty dict {}
EmptyMap == [k \in {} |-> 0]

----------------------------------------------------------------------------
(* Decimal numbers *)

Num(m, e) == [m |-> m, e |-> e]

Zero == Num(0, 0)

\* canonical form: no trailing zero in the mantissa, zero is Num(0, 0)
RECURSIVE Norm(_)
Norm(x) ==
    IF x.m = 0 THEN Zero
    ELSE IF x.m % 10 = 0 THEN Norm(Num(x.m \div 10, x.e + 1))
    ELSE x

\* the integer x / 10^e, for e <= x.e
Scaled(x, e) == x.m * Pow10(x.e - e)

NumLE(a, b) ==
    LET e0 == Min(a.e, b.e) IN Scaled(a, e0) <= Scaled(b, e0)

NumLT(a, b) ==
    LET e0 == Min(a.e, b.e) IN Scaled(a, e0) < Scaled(b, e0)

NumGE(a, b) == NumLE(b, a)

NumGT(a, b) == NumLT(b, a)

RECURSIVE MinExp(_)
MinExp(values) ==
    IF Len(values) = 0 THEN 0
    ELSE IF Len(values) = 1 THEN values[1].e
    ELSE Min(values[1].e, MinExp(Tail(values)))

----------------------------------------------------------------------------
(* models.py *)

\* the nine metric fields of FinancialData, in the order of the aliases dict
MetricOrder ==
    << "revenue", "eps", "total_assets", "operating_cf", "cash_equivalents",
       "roe", "equity_ratio", "dividend_ps", "dividend_payout_ratio" >>

Metrics == {MetricOrder[i] : i \in 1..Len(MetricOrder)}

FinancialData(ticker, fiscal_years, series) ==
    [ ticker                |-> ticker,
      fiscal_years          |-> fiscal_years,
      revenue               |-> series["revenue"],
      eps                   |-> series["eps"],
      total_assets          |-> series["total_assets"],
      operating_cf          |-> series["operating_cf"],
      cash_equivalents      |-> series["cash_equivalents"],
      roe                   |-> series["roe"],
      equity_ratio          |-> series["equity_ratio"],
      dividend_ps           |-> series["dividend_ps"],
      dividend_payout_ratio |-> series["dividend_payout_ratio"] ]

StockScore(ticker, total_score, breakdown, financial_data) ==
    [ ticker         |-> ticker,
      total_score    |-> total_score,
      breakdown      |-> breakdown,
      financial_data |-> financial_data ]

\* the ticker of the request (test_scoring line 7)
Ticker == "1111"

NoData == [ticker |-> "none"]

NoScore == [ticker |-> "none"]

NoDocument == << >>

NoTable == << >>

NoText == << >>

----------------------------------------------------------------------------
(* scoring.py *)

\* the points a rule awards when it passes
MaxPoints ==
    [ revenue               |-> 15,
      eps                   |-> 15,
      total_assets          |-> 10,
      operating_cf          |-> 10,
      cash_equivalents      |-> 10,
      roe                   |-> 10,
      equity_ratio          |-> 10,
      dividend_ps           |-> 10,
      dividend_payout_ratio |-> 10 ]

RoeMin == Num(7, 0)

EquityRatioMin == Num(50, 0)

PayoutRatioMax == Num(40, 0)

\* sum over i = 0 .. n-1 of w(i) * y[i + 1]
RECURSIVE WeightedSum(_, _, _)
WeightedSum(y, k, pow) ==
    IF k > Len(y) THEN 0
    ELSE (IF pow = 0 THEN y[k] ELSE (k - 1) * y[k]) + WeightedSum(y, k + 1, pow)

\* np.polyfit(x, y, 1) raises on an empty vector (line 30)
polyfit_raises(values) == Len(values) = 0

\* the least-squares slope of the last two values only
get_slope_last_step(values) ==
    IF Len(values) < 2 THEN [num |-> 0, den |-> 1, e |-> 0]
    ELSE LET e0 == MinExp(values)
         IN  [num |-> Scaled(values[Len(values)], e0) - Scaled(values[Len(values) - 1], e0),
              den |-> 1, e |-> e0]

\* get_slope: the least-squares slope of values against 0 .. n-1, as the
\* fraction num / den times 10^e (den > 0 whenever n >= 2)
get_slope(values) ==
    IF Len(values) < 2 THEN [num |-> 0, den |-> 1, e |-> 0]
    ELSE
        LET n   == Len(values)
            e0  == MinExp(values)
            y   == [i \in 1..n |-> Scaled(values[i], e0)]
            x   == [i \in 1..n |-> i - 1]
            xx  == [i \in 1..n |-> (i - 1) * (i - 1)]
            Sx  == WeightedSum(x, 1, 0)
            Sxx == WeightedSum(xx, 1, 0)
            Sy  == WeightedSum(y, 1, 0)
            Sxy == WeightedSum(y, 1, 1)
        IN  [num |-> n * Sxy - Sx * Sy, den |-> n * Sxx - Sx * Sx, e |-> e0]

\* get_slope without the guard of line 25: np.polyfit is always reached
get_slope_unguarded_raises(values) == polyfit_raises(values)

\* get_slope raises when np.polyfit is reached (line 25 returns before it)
\* and raises
get_slope_raises(values) == ~ (Len(values) < 2) /\ polyfit_raises(values)

\* is_right_shoulder_up with >= in place of >
is_right_shoulder_up_or_flat(values) ==
    LET slope == get_slope(values) IN slope.num * slope.den >= 0

is_right_shoulder_up(values) ==
    LET slope == get_slope(values) IN slope.num * slope.den > 0

\* all(v >= 0 ...) in place of all(v > 0 ...)
all_non_negative(values) == \A i \in 1..Len(values) : NumGE(values[i], Zero)

all_positive(values) == \A i \in 1..Len(values) : NumGT(values[i], Zero)

\* the threshold applied to the last five years only
all_at_least_last_five(values, bound) ==
    \A i \in 1..Len(values) : i > Len(values) - 5 => NumGE(values[i], bound)

all_at_least(values, bound) == \A i \in 1..Len(values) : NumGE(values[i], bound)

\* the payout rule asking for a ratio above 0 as well
all_at_most_positive(values, bound) ==
    \A i \in 1..Len(values) : NumGT(values[i], Zero) /\ NumLE(values[i], bound)

all_at_most(values, bound) == \A i \in 1..Len(values) : NumLE(values[i], bound)

\* every year strictly above the year before
is_strictly_increasing(values) ==
    \A i \in 2..Len(values) : NumGT(values[i], values[i - 1])

\* only the last year compared with the first
is_non_decreasing_overall(values) ==
    Len(values) < 2 \/ ~ NumLT(values[Len(values)], values[1])

is_non_decreasing(values) ==
    \A i \in 2..Len(values) : ~ NumLT(values[i], values[i - 1])

\* the condition under which each rule awards its points (lines 36-108)
rule_passes(metric, d) ==
    CASE metric = "revenue"               -> is_right_shoulder_up(d.revenue)
      [] metric = "eps"                   -> is_right_shoulder_up(d.eps)
      [] metric = "total_assets"          -> is_right_shoulder_up(d.total_assets)
      [] metric = "operating_cf"          ->
            all_positive(d.operating_cf) /\ is_right_shoulder_up(d.operating_cf)
      [] metric = "cash_equivalents"      -> is_right_shoulder_up(d.cash_equivalents)
      [] metric = "roe"                   -> all_at_least(d.roe, RoeMin)
      [] metric = "equity_ratio"          -> all_at_least(d.equity_ratio, EquityRatioMin)
      [] metric = "dividend_ps"           ->
            is_non_decreasing(d.dividend_ps) /\ is_right_shoulder_up(d.dividend_ps)
      [] metric = "dividend_payout_ratio" ->
            all_at_most(d.dividend_payout_ratio, PayoutRatioMax)

\* the sum without the last rule
RECURSIVE SumValuesButLast(_, _)
SumValuesButLast(breakdown, k) ==
    IF k >= Len(MetricOrder) THEN 0
    ELSE (IF MetricOrder[k] \in DOMAIN breakdown THEN breakdown[MetricOrder[k]] ELSE 0)
         + SumValuesButLast(breakdown, k + 1)

\* sum(breakdown.values())
RECURSIVE SumValues(_, _)
SumValues(breakdown, k) ==
    IF k > Len(MetricOrder) THEN 0
    ELSE (IF MetricOrder[k] \in DOMAIN breakdown THEN breakdown[MetricOrder[k]] ELSE 0)
         + SumValues(breakdown, k + 1)

\* years_count < 1 in place of years_count < 2
no_history(d) == Len(d.fiscal_years) < 1

\* years_count < 2 (line 11)
insufficient_history(d) == Len(d.fiscal_years) < 2

\* the last five years of a FinancialData
last_five(d) ==
    LET cut(q) == SubSeq(q, IF Len(q) > 5 THEN Len(q) - 4 ELSE 1, Len(q))
    IN  FinancialData(d.ticker, cut(d.fiscal_years), [k \in Metrics |-> cut(d[k])])

\* calculate_score returning the last five years as financial_data
calculate_score_windowed(d) ==
    IF insufficient_history(d)
    THEN StockScore(d.ticker, 0, [k \in Metrics |-> 0], last_five(d))
    ELSE
        LET breakdown ==
                [k \in Metrics |-> IF rule_passes(k, d) THEN MaxPoints[k] ELSE 0]
        IN  StockScore(d.ticker, SumValues(breakdown, 1), breakdown, last_five(d))

calculate_score(d) ==
    IF insufficient_history(d)
    THEN StockScore(d.ticker, 0, [k \in Metrics |-> 0], d)
    ELSE
        LET breakdown ==
                [k \in Metrics |-> IF rule_passes(k, d) THEN MaxPoints[k] ELSE 0]
        IN  StockScore(d.ticker, SumValues(breakdown, 1), breakdown, d)

\* calculate_score raises where one of its get_slope calls does: the five
\* trend rules call it on their series, operating_cf only after all(v > 0)
\* held (line 57)
calculate_score_raises(d) ==
    /\ ~ insufficient_history(d)
    /\ \/ get_slope_raises(d.revenue)
       \/ get_slope_raises(d.eps)
       \/ get_slope_raises(d.total_assets)
       \/ all_positive(d.operating_cf) /\ get_slope_raises(d.operating_cf)
       \/ get_slope_raises(d.cash_equivalents)
       \/ get_slope_raises(d.dividend_ps)

----------------------------------------------------------------------------
(* scraper.py: text *)

\* pat in text
Contains(text, pat) ==
    \E i \in 0..(Len(text) - Len(pat)) : SubSeq(text, i + 1, i + Len(pat)) = pat

\* text.replace(glyph, "")
RECURSIVE Remove(_, _)
Remove(text, glyph) ==
    IF text = << >> THEN << >>
    ELSE IF Head(text) = glyph THEN Remove(Tail(text), glyph)
    ELSE <<Head(text)>> \o Remove(Tail(text), glyph)

Digit == <<"0", "1", "2", "3", "4", "5", "6", "7", "8", "9">>

IsDigit(c) == \E i \in 1..Len(Digit) : Digit[i] = c

DigitValue(c) == (CHOOSE i \in 1..Len(Digit) : Digit[i] = c) - 1

RECURSIVE DigitsValue(_)
DigitsValue(ds) ==
    IF ds = << >> THEN 0
    ELSE 10 * DigitsValue(SubSeq(ds, 1, Len(ds) - 1)) + DigitValue(ds[Len(ds)])

\* float(clean) on signs, digits and one decimal point; any other glyph, no
\* digit at all or a second point is a ValueError (ok = FALSE)
ParseFloat(clean) ==
    LET signed == clean # << >> /\ Head(clean) \in {"+", "-"}
        body   == IF signed THEN Tail(clean) ELSE clean
        points == {i \in 1..Len(body) : body[i] = "."}
        digits == Remove(body, ".")
        ok     == /\ digits # << >>
                  /\ \A i \in 1..Len(digits) : IsDigit(digits[i])
                  /\ Cardinality(points) <= 1
        frac   == IF points = {} THEN 0 ELSE Len(body) - (CHOOSE i \in points : TRUE)
        sign   == IF signed /\ Head(clean) = "-" THEN -1 ELSE 1
    IN  IF ok THEN [ok |-> TRUE, value |-> Norm(Num(sign * DigitsValue(digits), -frac))]
        ELSE [ok |-> FALSE, value |-> Zero]

\* the unit glyphs of _parse_value: 10^12, 10^8, 10^4
Trillion == "U5146"

HundredMillion == "U5104"

TenThousand == "U4E07"

FullWidthDash == "UFF0D"

\* _parse_value dividing a percentage by 100
parse_value_percent_fraction(text) ==
    IF text = << >> \/ text = <<"-">> \/ text = <<FullWidthDash>> THEN Zero
    ELSE
        LET clean == Remove(text, ",")
            unit  == CASE Contains(clean, <<Trillion>>)       -> Trillion
                       [] Contains(clean, <<HundredMillion>>) -> HundredMillion
                       [] Contains(clean, <<TenThousand>>)    -> TenThousand
                       [] Contains(clean, <<"%">>)            -> "%"
                       [] OTHER                               -> ""
            exp   == CASE unit = Trillion       -> 12
                       [] unit = HundredMillion -> 8
                       [] unit = TenThousand    -> 4
                       [] unit = "%"            -> -2
                       [] OTHER                 -> 0
            rest  == IF unit = "" THEN clean ELSE Remove(clean, unit)
            p     == ParseFloat(rest)
        IN  IF p.ok THEN Norm(Num(p.value.m, p.value.e + exp)) ELSE Zero

\* _parse_value with if in place of elif: every unit glyph present is
\* stripped and the last one found sets the multiplier
parse_value_every_unit(text) ==
    IF text = << >> \/ text = <<"-">> \/ text = <<FullWidthDash>> THEN Zero
    ELSE
        LET clean == Remove(text, ",")
            exp   == CASE Contains(clean, <<"%">>)            -> 0
                       [] Contains(clean, <<TenThousand>>)    -> 4
                       [] Contains(clean, <<HundredMillion>>) -> 8
                       [] Contains(clean, <<Trillion>>)       -> 12
                       [] OTHER                               -> 0
            rest  == Remove(Remove(Remove(Remove(clean, Trillion), HundredMillion),
                                   TenThousand), "%")
            p     == ParseFloat(rest)
        IN  IF p.ok THEN Norm(Num(p.value.m, p.value.e + exp)) ELSE Zero

\* _parse_value
parse_value(text) ==
    IF text = << >> \/ text = <<"-">> \/ text = <<FullWidthDash>> THEN Zero
    ELSE
        LET clean == Remove(text, ",")
            unit  == CASE Contains(clean, <<Trillion>>)       -> Trillion
                       [] Contains(clean, <<HundredMillion>>) -> HundredMillion
                       [] Contains(clean, <<TenThousand>>)    -> TenThousand
                       [] Contains(clean, <<"%">>)            -> "%"
                       [] OTHER                               -> ""
            exp   == CASE unit = Trillion       -> 12
                       [] unit = HundredMillion -> 8
                       [] unit = TenThousand    -> 4
                       [] OTHER                 -> 0
            rest  == IF unit = "" THEN clean ELSE Remove(clean, unit)
            p     == ParseFloat(rest)
        IN  IF p.ok THEN Norm(Num(p.value.m, p.value.e + exp)) ELSE Zero

----------------------------------------------------------------------------
(* scraper.py: header resolution and table location *)

\* "年度", the year-axis marker
YearMarker == <<"U5E74", "U5EA6">>

\* the aliases dict (lines 69-81)
Aliases ==
    [ revenue |-> <<
        <<"U58F2", "U4E0A", "U9AD8">>,
        <<"U55B6", "U696D", "U53CE", "U76CA">>,
        <<"U7D4C", "U5E38", "U53CE", "U76CA">>,
        <<"U58F2", "U4E0A">> >>,
      eps |-> <<
        <<"E", "P", "S">>,
        <<"U4E00", "U682A", "U5229", "U76CA">>,
        <<"U57FA", "U672C", "U7684", "1", "U682A", "U5F53", "U305F", "U308A", "U5F53", "U671F", "U5229", "U76CA">>,
        <<"U4E00", "U682A", "U5F53", "U305F", "U308A", "U5F53", "U671F", "U7D14", "U5229", "U76CA">> >>,
      total_assets |-> <<
        <<"U7DCF", "U8CC7", "U7523">>,
        <<"U8CC7", "U7523", "U5408", "U8A08">> >>,
      operating_cf |-> <<
        <<"U55B6", "U696D", "C", "F">>,
        <<"U55B6", "U696D", "U30AD", "U30E3", "U30C3", "U30B7", "U30E5", "U30D5", "U30ED", "U30FC">>,
        <<"U55B6", "U696D", "U6D3B", "U52D5", "U306B", "U3088", "U308B", "U30AD", "U30E3", "U30C3", "U30B7", "U30E5", "U30FB", "U30D5", "U30ED", "U30FC">>,
        <<"U55B6", "U696D", "U6D3B", "U52D5", "U306B", "U3088", "U308B", "U30AD", "U30E3", "U30C3", "U30B7", "U30E5", "U30D5", "U30ED", "U30FC">> >>,
      cash_equivalents |-> <<
        <<"U73FE", "U91D1", "U7B49">>,
        <<"U73FE", "U91D1", "U6B8B", "U9AD8">>,
        <<"U73FE", "U91D1", "U53CA", "U3073", "U73FE", "U91D1", "U540C", "U7B49", "U7269">>,
        <<"U73FE", "U91D1", "U53CA", "U3073", "U9810", "U91D1">> >>,
      roe |-> <<
        <<"R", "O", "E">>,
        <<"U81EA", "U5DF1", "U8CC7", "U672C", "U5229", "U76CA", "U7387">>,
        <<"U89AA", "U4F1A", "U793E", "U6240", "U6709", "U8005", "U5E30", "U5C5E", "U6301", "U5206", "U5F53", "U671F", "U5229", "U76CA", "U7387">>,
        <<"U5F53", "U671F", "U7D14", "U5229", "U76CA", "U7387">> >>,
      equity_ratio |-> <<
        <<"U81EA", "U5DF1", "U8CC7", "U672C", "U6BD4", "U7387">>,
        <<"U89AA", "U4F1A", "U793E", "U6240", "U6709", "U8005", "U5E30", "U5C5E", "U6301", "U5206", "U6BD4", "U7387">>,
        <<"U8CC7", "U672C", "U6BD4", "U7387">> >>,
      dividend_ps |-> <<
        <<"U914D", "U5F53">>,
        <<"U4E00", "U682A", "U914D", "U5F53">>,
        <<"1", "U682A", "U5F53", "U305F", "U308A", "U914D", "U5F53", "U984D">> >>,
      dividend_payout_ratio |-> <<
        <<"U914D", "U5F53", "U6027", "U5411">>,
        <<"U914D", "U5F53", "U6027", "U5411", "(", "%", ")">> >> ]

\* any(a in col_name for a in alias_list)
any_alias_in(target, col_name) ==
    \E i \in 1..Len(Aliases[target]) : Contains(col_name, Aliases[target][i])

\* the inner loop body without "if target in header_map: continue"
bind_target_rebinding(hm, target, idx, col_name) ==
    IF any_alias_in(target, col_name)
    THEN [t \in DOMAIN hm \cup {target} |-> IF t = target THEN idx ELSE hm[t]]
    ELSE hm

\* the body of the inner loop (lines 97-99) for one target and one column
bind_target(hm, target, idx, col_name) ==
    IF target \in DOMAIN hm THEN hm
    ELSE IF any_alias_in(target, col_name) THEN hm @@ (target :> idx)
    ELSE hm

\* for target, alias_list in aliases.items() (line 96), from the k-th target on
RECURSIVE bind_targets(_, _, _, _)
bind_targets(hm, k, idx, col_name) ==
    IF k > Len(MetricOrder) THEN hm
    ELSE bind_targets(bind_target(hm, MetricOrder[k], idx, col_name), k + 1, idx, col_name)

\* for idx, col_name in enumerate(cols) (line 95), from column idx (0-based) on
RECURSIVE build_map(_, _, _)
build_map(hm, cols, idx) ==
    IF idx >= Len(cols) THEN hm
    ELSE build_map(bind_targets(hm, 1, idx, cols[idx + 1]), cols, idx + 1)

\* "年度" in cols
has_year_marker(cols) == \E i \in 1..Len(cols) : cols[i] = YearMarker

\* the table loop without its break: the last table with a year marker
\* in its first row is kept
RECURSIVE find_table_last(_, _)
find_table_last(tables, k) ==
    IF k > Len(tables) THEN [found |-> FALSE, table |-> NoTable, header_map |-> EmptyMap]
    ELSE LET later == find_table_last(tables, k + 1)
         IN  IF later.found \/ tables[k] = << >> \/ ~ has_year_marker(tables[k][1])
             THEN later
             ELSE [found |-> TRUE, table |-> tables[k],
                   header_map |-> build_map(EmptyMap, tables[k][1], 0)]

\* for t in tables (lines 83-100), from the k-th table on
RECURSIVE find_table(_, _)
find_table(tables, k) ==
    IF k > Len(tables) THEN [found |-> FALSE, table |-> NoTable, header_map |-> EmptyMap]
    ELSE IF tables[k] = << >> THEN find_table(tables, k + 1)
    ELSE IF has_year_marker(tables[k][1])
         THEN [found |-> TRUE, table |-> tables[k],
               header_map |-> build_map(EmptyMap, tables[k][1], 0)]
    ELSE find_table(tables, k + 1)

----------------------------------------------------------------------------
(* scraper.py: series building *)

RECURSIVE MaxOf(_)
MaxOf(S) ==
    LET x == CHOOSE y \in S : TRUE
    IN  IF S = {x} THEN x
        ELSE LET rest == MaxOf(S \ {x}) IN IF x >= rest THEN x ELSE rest

\* max(header_map.values()) if header_map else 0
max_idx(hm) == IF DOMAIN hm = {} THEN 0 ELSE MaxOf({hm[t] : t \in DOMAIN hm})

\* the value a data row gives one target (lines 123-129)
row_value(hm, target, cols) ==
    IF target \in DOMAIN hm THEN parse_value(cols[hm[target] + 1]) ELSE Zero

\* the row loop body without the else branch that appends 0.0
parse_row_no_padding(hm, cols, acc) ==
    IF Len(cols) <= max_idx(hm) THEN acc
    ELSE [ years     |-> Append(acc.years, cols[1]),
           data_dict |-> [t \in Metrics |->
                            IF t \in DOMAIN hm
                            THEN Append(acc.data_dict[t], row_value(hm, t, cols))
                            ELSE acc.data_dict[t]] ]

\* the row loop body emitting the label of a short row that has one
parse_row_partial_year(hm, cols, acc) ==
    IF cols = << >> THEN acc
    ELSE IF Len(cols) <= max_idx(hm)
         THEN [years |-> Append(acc.years, cols[1]), data_dict |-> acc.data_dict]
    ELSE [ years     |-> Append(acc.years, cols[1]),
           data_dict |-> [t \in Metrics |->
                            Append(acc.data_dict[t], row_value(hm, t, cols))] ]

\* the body of the row loop (lines 111-129): acc is [years, data_dict]
parse_row(hm, cols, acc) ==
    IF Len(cols) <= max_idx(hm) THEN acc
    ELSE [ years     |-> Append(acc.years, cols[1]),
           data_dict |-> [t \in Metrics |->
                            Append(acc.data_dict[t], row_value(hm, t, cols))] ]

\* for row in rows (line 110), from the k-th row of rows on
RECURSIVE parse_rows(_, _, _, _)
parse_rows(hm, rows, k, acc) ==
    IF k > Len(rows) THEN acc
    ELSE parse_rows(hm, rows, k + 1, parse_row(hm, rows[k], acc))

\* the series with years.reverse() only
build_series_years_reversed(ticker, tbl, hm) ==
    LET acc == parse_rows(hm, Tail(tbl), 1,
                          [years |-> << >>, data_dict |-> [t \in Metrics |-> << >>]])
    IN  FinancialData(ticker, Reverse(acc.years), acc.data_dict)

\* lines 105-151: the FinancialData of the selected table
build_series(ticker, tbl, hm) ==
    LET acc == parse_rows(hm, Tail(tbl), 1,
                          [years |-> << >>, data_dict |-> [t \in Metrics |-> << >>]])
    IN  FinancialData(ticker, Reverse(acc.years),
                      [t \in Metrics |-> Reverse(acc.data_dict[t])])

\* the try block of scrape (lines 63-151) on a parsed page
extract(ticker, tables) ==
    LET loc == find_table(tables, 1)
    IN  IF ~ loc.found
        THEN [ok |-> FALSE, table |-> NoTable, header_map |-> loc.header_map, data |-> NoData]
        ELSE [ok |-> TRUE, table |-> loc.table, header_map |-> loc.header_map,
              data |-> build_series(ticker, loc.table, loc.header_map)]

----------------------------------------------------------------------------
(* scraper.py: the cache *)

\* the tickers requested (test_scoring lines 7 and 26)
Tickers == {"1111", "2222"}

\* no file at _get_cache_path(ticker)
NoFile == [present |-> FALSE, has_revenue |-> FALSE, payload |-> NoData, mtime |-> 0]

\* a pickle of the current FinancialData, written at time now
CacheFile(d, now) == [present |-> TRUE, has_revenue |-> TRUE, payload |-> d, mtime |-> now]

\* a pickle of an older model class, which has no revenue field
LegacyFile(now) == [present |-> TRUE, has_revenue |-> FALSE, payload |-> NoData, mtime |-> now]

\* _load_cache with <= in place of <
load_cache_inclusive(c, t, now) ==
    IF c[t].present /\ now - c[t].mtime <= 24 * 3600 THEN c[t] ELSE NoFile

\* _load_cache: the file's content if it exists and is younger than 24 hours,
\* else None
load_cache(c, t, now) ==
    IF c[t].present /\ now - c[t].mtime < 24 * 3600 THEN c[t] ELSE NoFile

\* _save_cache
save_cache(c, t, d, now) == [c EXCEPT ![t] = CacheFile(d, now)]

----------------------------------------------------------------------------
(* Inputs of calculate_score *)

\* the decimal text of a natural number
RECURSIVE DecimalText(_)
DecimalText(n) ==
    IF n < 10 THEN <<Digit[n + 1]>>
    ELSE Append(DecimalText(n \div 10), Digit[(n % 10) + 1])

\* fiscal-year labels "2021", "2022", ... as in test_scoring
YearLabel(i) == DecimalText(2020 + i)

FiscalYears(n) == [i \in 1..n |-> YearLabel(i)]

Linear(start, step, e, n) == [i \in 1..n |-> Norm(Num(start + step * (i - 1), e))]

\* the perfect case of test_scoring, for n years
PerfectSeries(metric, n) ==
    CASE metric = "revenue"               -> Linear(100, 10, 0, n)
      [] metric = "eps"                   -> Linear(10, 2, 0, n)
      [] metric = "total_assets"          -> Linear(1000, 100, 0, n)
      [] metric = "operating_cf"          -> Linear(50, 10, 0, n)
      [] metric = "cash_equivalents"      -> Linear(20, 10, 0, n)
      [] metric = "roe"                   -> Linear(80, 5, -1, n)
      [] metric = "equity_ratio"          -> Linear(55, 1, 0, n)
      [] metric = "dividend_ps"           ->
            [i \in 1..n |->
                Norm(Num(10 + 2 * ((i - 1) \div 2) + (IF i >= 5 THEN 1 ELSE 0), 0))]
      [] metric = "dividend_payout_ratio" ->
            [i \in 1..n |-> Norm(Num(20 + 5 * ((i - 1) \div 2), 0))]

\* the bad case of test_scoring, for n years
BadSeries(metric, n) ==
    CASE metric = "revenue"               -> Linear(140, -10, 0, n)
      [] metric = "eps"                   -> Linear(10, 2, 0, n)
      [] metric = "total_assets"          -> Linear(1000, 0, 0, n)
      [] metric = "operating_cf"          ->
            [i \in 1..n |-> IF i = 1 THEN Num(-1, 1) ELSE Norm(Num(10 * i, 0))]
      [] metric = "cash_equivalents"      -> Linear(60, -10, 0, n)
      [] metric = "roe"                   -> Linear(6, 0, 0, n)
      [] metric = "equity_ratio"          -> Linear(40, 0, 0, n)
      [] metric = "dividend_ps"           -> Linear(10, -1, 0, n)
      [] metric = "dividend_payout_ratio" -> Linear(20, 0, 0, n)

\* the bound a rule compares against: 7.0, 50.0, 40.0, and 0 for the others
Threshold(metric) ==
    CASE metric = "roe"                   -> RoeMin
      [] metric = "equity_ratio"          -> EquityRatioMin
      [] metric = "dividend_payout_ratio" -> PayoutRatioMax
      [] OTHER                            -> Zero

\* the values tried for a metric: its threshold and 0.01 to either side
Values(metric) ==
    {Norm(Num(Scaled(Threshold(metric), -2) + d, -2)) : d \in {-1, 0, 1}}

\* the lengths tried for one metric of a series of n years: empty, one
\* short, and n
Lengths(n) == {k \in {0, n - 1, n} : k >= 0}

SequencesOver(S, k) == [1..k -> S]

\* a FinancialData tried: the focus metric (if any) holds seq, the others hold
\* the perfect or the bad case for n years
ScoreInput(n, base, focus, seq) ==
    FinancialData(Ticker, FiscalYears(n),
                  [m \in Metrics |->
                      IF m = focus THEN seq
                      ELSE IF base = "perfect" THEN PerfectSeries(m, n)
                      ELSE BadSeries(m, n)])

----------------------------------------------------------------------------
(* Inputs of the extraction *)

\* header cells tried: "年度" (which matches no alias), "売上高", "配当性向", "配当"
SalesCell == <<"U58F2", "U4E0A", "U9AD8">>

PayoutRatioCell == <<"U914D", "U5F53", "U6027", "U5411">>

DividendCell == <<"U914D", "U5F53">>

HeaderCells == {YearMarker, SalesCell, PayoutRatioCell, DividendCell}

\* value cells tried: "1,234", "12.5%", "-", "3万", "7.0", "n/a"
CellTokens ==
    << <<"1", ",", "2", "3", "4">>,
       <<"1", "2", ".", "5", "%">>,
       <<"-">>,
       <<"3", "U4E07">>,
       <<"7", ".", "0">>,
       <<"n", "/", "a">> >>

\* the first w cells of the row of fiscal year y: its label, then value cells
DataRow(y, w) ==
    [c \in 1..w |-> IF c = 1 THEN YearLabel(y)
                    ELSE CellTokens[((y + c) % Len(CellTokens)) + 1]]

\* a table with the given header row and one data row per entry of widths,
\* newest year first
Table(header, widths) ==
    <<header>> \o [k \in 1..Len(widths) |-> DataRow(Len(widths) + 1 - k, widths[k])]

\* a page with one financial table: header "年度", "売上" and two years
PageGood == <<Table(<<YearMarker, SalesCell>>, <<2, 2>>)>>

\* a table whose first row has no year marker, though its second row has
LateMarkerTable == <<<<SalesCell, DividendCell>>, <<YearMarker, SalesCell>>>>

\* a page whose third table is the first with "年度" in its first row,
\* after a table without rows, and whose fourth table has it too
PageMulti ==
    << LateMarkerTable,
       << >>,
       Table(<<YearMarker, DividendCell>>, <<2>>),
       Table(<<YearMarker, SalesCell>>, <<2, 2>>) >>

\* a page without a financial table
PageNone == <<LateMarkerTable, << >>>>

Pages == {PageGood, PageMulti, PageNone}

\* the seconds that pass between two requests: with the second slept after
\* a save, one second short of 24 hours since the save, or 24 hours
Steps == {24 * 3600 - 2, 24 * 3600 - 1}

\* the glyphs value cells are made of: digits, separator, point, sign,
\* the unit glyphs and the full-width dash
CellGlyphs ==
    {"1", "5", ",", ".", "-", Trillion, HundredMillion, TenThousand, "%", FullWidthDash}

\* "1,234", "5億", "12.5%", "1兆2345億", "-1,500万"
SampleTexts ==
    { <<"1", ",", "2", "3", "4">>,
      <<"5", HundredMillion>>,
      <<"1", "2", ".", "5", "%">>,
      <<"1", Trillion, "2", "3", "4", "5", HundredMillion>>,
      <<"-", "1", ",", "5", "0", "0", TenThousand>> }

----------------------------------------------------------------------------
(* Actions *)

\* main.py analyze_stock, line 25: the next call of
\* get_financial_data(ticker), for the page the site serves then; once
\* MaxFetches requests went to the site only cached tickers are asked for
NewRequest ==
    /\ pc \in {"have_data", "error"}
    /\ \E t \in Tickers, page \in Pages :
         /\ \/ fetches < MaxFetches
            \/ LET cached == load_cache(cache, t, clock)
               IN  cached.present /\ cached.has_revenue
         /\ request' = t
         /\ document' = page
    /\ table' = NoTable
    /\ header_map' = EmptyMap
    /\ data' = NoData
    /\ pc' = "request"
    /\ UNCHANGED <<cache, clock, fetches, score, cell_text, value>>

\* time.time() moves on between two requests
Tick ==
    /\ pc \in {"have_data", "error"}
    /\ \E step \in Steps :
         /\ clock + step <= MaxDays * 24 * 3600 + MaxSlack
         /\ clock' = clock + step
    /\ UNCHANGED <<request, document, cache, fetches, table, header_map, data,
                   score, cell_text, value, pc>>

\* val = self._parse_value(val_str) (line 127)
ParseValue ==
    /\ pc = "parse"
    /\ value' = parse_value(cell_text)
    /\ pc' = "parsed"
    /\ UNCHANGED <<request, document, cache, clock, fetches, table, header_map,
                   data, score, cell_text>>

\* scrape, lines 35-159: a cache file younger than 24 hours that has a
\* revenue field is returned as it is; otherwise the page is fetched, the
\* table located, its header resolved, the series built, saved under the
\* ticker and returned after the one-second sleep. A failed request and
\* "Financial table not found" are raised to the caller, past _save_cache.
Scrape ==
    /\ pc = "request"
    /\ LET cached == load_cache(cache, request, clock)
       IN  IF cached.present /\ cached.has_revenue
           THEN /\ data' = cached.payload
                /\ pc' = "have_data"
                /\ table' = NoTable
                /\ header_map' = EmptyMap
                /\ UNCHANGED <<cache, clock, fetches>>
           ELSE /\ fetches' = fetches + 1
                /\ \E http_ok \in BOOLEAN :
                     LET r == extract(request, document)
                     IN  IF http_ok /\ r.ok
                         THEN /\ table' = r.table
                              /\ header_map' = r.header_map
                              /\ data' = r.data
                              /\ cache' = save_cache(cache, request, r.data, clock)
                              /\ clock' = clock + 1
                              /\ pc' = "have_data"
                         ELSE /\ table' = NoTable
                              /\ header_map' = EmptyMap
                              /\ data' = NoData
                              /\ pc' = "error"
                              /\ UNCHANGED <<cache, clock>>
    /\ UNCHANGED <<request, document, score, cell_text, value>>

\* main.py analyze_stock, line 26: score = calculate_score(data); an
\* exception becomes the HTTP 500 of line 29
CalculateScore ==
    /\ pc = "have_data"
    /\ IF calculate_score_raises(data)
       THEN score' = NoScore /\ pc' = "score_error"
       ELSE score' = calculate_score(data) /\ pc' = "scored"
    /\ UNCHANGED <<request, document, cache, clock, fetches, table, header_map,
                   data, cell_text, value>>

----------------------------------------------------------------------------
(* Scoring of a given FinancialData *)

\* nothing cached, no request made, nothing parsed
Idle ==
    /\ cache = [t \in Tickers |-> NoFile]
    /\ clock = 0
    /\ fetches = 0
    /\ cell_text = NoText
    /\ value = Zero

InitScore ==
    /\ Idle
    /\ request = Ticker
    /\ document = NoDocument
    /\ table = NoTable
    /\ header_map = EmptyMap
    /\ \E n \in 0..MaxLen, base \in {"perfect", "bad"} :
         \/ data = ScoreInput(n, base, "none", << >>)
         \/ \E focus \in Metrics, k \in Lengths(n) :
              \E seq \in SequencesOver(Values(focus), k) :
                data = ScoreInput(n, base, focus, seq)
    /\ score = NoScore
    /\ pc = "have_data"

NextScore == CalculateScore

SpecScore == InitScore /\ [][NextScore]_vars

----------------------------------------------------------------------------
(* Extraction of a fetched page, then scoring *)

InitExtract ==
    /\ Idle
    /\ request = Ticker
    /\ \E hl \in 1..MaxCols, nr \in 0..MaxRows :
         \E header \in [1..hl -> HeaderCells], widths \in [1..nr -> 0..MaxCols] :
           document = <<Table(header, widths)>>
    /\ table = NoTable
    /\ header_map = EmptyMap
    /\ data = NoData
    /\ score = NoScore
    /\ pc = "request"

NextExtract == Scrape \/ CalculateScore

SpecExtract == InitExtract /\ [][NextExtract]_vars

----------------------------------------------------------------------------
(* Requests against the cache *)

InitCache ==
    /\ cache \in [Tickers -> {NoFile, LegacyFile(0)}]
    /\ clock = 0
    /\ fetches = 0
    /\ request \in Tickers
    /\ document \in Pages
    /\ table = NoTable
    /\ header_map = EmptyMap
    /\ data = NoData
    /\ score = NoScore
    /\ cell_text = NoText
    /\ value = Zero
    /\ pc = "request"

NextCache == Scrape \/ NewRequest \/ Tick

SpecCache == InitCache /\ [][NextCache]_vars

----------------------------------------------------------------------------
(* Normalisation of one cell text *)

InitParse ==
    /\ cache = [t \in Tickers |-> NoFile]
    /\ clock = 0
    /\ fetches = 0
    /\ request = Ticker
    /\ document = NoDocument
    /\ table = NoTable
    /\ header_map = EmptyMap
    /\ data = NoData
    /\ score = NoScore
    /\ \/ \E n \in 0..MaxText : cell_text \in [1..n -> CellGlyphs]
       \/ cell_text \in SampleTexts
    /\ value = Zero
    /\ pc = "parse"

NextParse == ParseValue

SpecParse == InitParse /\ [][NextParse]_vars

----------------------------------------------------------------------------
(* Properties of calculate_score *)

Scored == pc = "scored"

EnoughHistory == Len(data.fiscal_years) >= 2

\* a value in hundredths
Centi(v) == Scaled(v, -2)

\* sum over i of (2 x_i - (n - 1)) * y_i with x_i = i - 1: twice the
\* covariance sum of the least-squares fit, whose sign is the slope's
RECURSIVE CenteredSum(_, _)
CenteredSum(values, i) ==
    IF i > Len(values) THEN 0
    ELSE (2 * (i - 1) - (Len(values) - 1)) * Centi(values[i]) + CenteredSum(values, i + 1)

\* the least-squares slope is strictly positive (0.0 below two values)
TrendUp(values) == Len(values) >= 2 /\ CenteredSum(values, 1) > 0

Flat(values) == \A i \in 1..Len(values) : Centi(values[i]) = Centi(values[1])

Falling(values) ==
    Len(values) >= 2 /\ \A i \in 2..Len(values) : Centi(values[i]) < Centi(values[i - 1])

NonDecreasing(values) ==
    \A i \in 2..Len(values) : Centi(values[i]) >= Centi(values[i - 1])

RuleKeys ==
    { "revenue", "eps", "total_assets", "operating_cf", "cash_equivalents",
      "roe", "equity_ratio", "dividend_ps", "dividend_payout_ratio" }

RuleMax ==
    [ revenue |-> 15, eps |-> 15, total_assets |-> 10, operating_cf |-> 10,
      cash_equivalents |-> 10, roe |-> 10, equity_ratio |-> 10,
      dividend_ps |-> 10, dividend_payout_ratio |-> 10 ]

C3_InsufficientHistory ==
    (Scored /\ Len(data.fiscal_years) < 2) =>
        /\ score.total_score = 0
        /\ DOMAIN score.breakdown = RuleKeys
        /\ \A k \in RuleKeys : score.breakdown[k] = 0

\* one fiscal year whose roe, equity ratio and payout ratio all meet their bounds
C3_Witness ==
    /\ Scored
    /\ Len(data.fiscal_years) = 1
    /\ Len(data.roe) = 1 /\ Centi(data.roe[1]) >= 700
    /\ Len(data.equity_ratio) = 1 /\ Centi(data.equity_ratio[1]) >= 5000
    /\ Len(data.dividend_payout_ratio) = 1
    /\ Centi(data.dividend_payout_ratio[1]) <= 4000
    /\ score.total_score = 0

AllNinePass(d) ==
    /\ TrendUp(d.revenue)
    /\ TrendUp(d.eps)
    /\ TrendUp(d.total_assets)
    /\ TrendUp(d.cash_equivalents)
    /\ TrendUp(d.operating_cf)
    /\ \A i \in 1..Len(d.operating_cf) : Centi(d.operating_cf[i]) > 0
    /\ \A i \in 1..Len(d.roe) : Centi(d.roe[i]) >= 700
    /\ \A i \in 1..Len(d.equity_ratio) : Centi(d.equity_ratio[i]) >= 5000
    /\ NonDecreasing(d.dividend_ps)
    /\ TrendUp(d.dividend_ps)
    /\ \A i \in 1..Len(d.dividend_payout_ratio) : Centi(d.dividend_payout_ratio[i]) <= 4000

PureTrendRules == {"revenue", "eps", "total_assets", "cash_equivalents"}

C6_WitnessAtBound ==
    /\ Scored
    /\ data.roe = <<Num(7, 0), Num(7, 0), Num(7, 0)>>
    /\ score.breakdown.roe = 10

C17_WitnessShort ==
    /\ Scored
    /\ Len(data.fiscal_years) = 3
    /\ Len(data.dividend_ps) = 2
    /\ score.breakdown.dividend_ps = 10

C17_WitnessNoYears ==
    /\ Scored
    /\ data.fiscal_years = << >>
    /\ score.total_score = 0

----------------------------------------------------------------------------
(* Properties of _parse_value *)

Parsed == pc = "parsed"

UnitGlyphs == <<"U5146", "U5104", "U4E07", "%">>

UnitExponent == <<12, 8, 4, 0>>

WithoutCommas(t) == SelectSeq(t, LAMBDA g : g # ",")

\* the position in UnitGlyphs of the first glyph of that order which occurs
\* in t, 0 if none does
UnitOf(t) ==
    LET present == {u \in 1..Len(UnitGlyphs) : \E i \in 1..Len(t) : t[i] = UnitGlyphs[u]}
    IN  IF present = {} THEN 0 ELSE CHOOSE u \in present : \A w \in present : u <= w

\* t without its commas and without the glyph of its unit
Remainder(t) ==
    LET u == UnitOf(t)
    IN  SelectSeq(WithoutCommas(t), LAMBDA g : u = 0 \/ g # UnitGlyphs[u])

\* the glyphs "0" .. "9"
Numerals == {"0", "1", "2", "3", "4", "5", "6", "7", "8", "9"}

NumeralValue(g) ==
    CASE g = "0" -> 0 [] g = "1" -> 1 [] g = "2" -> 2 [] g = "3" -> 3 [] g = "4" -> 4
      [] g = "5" -> 5 [] g = "6" -> 6 [] g = "7" -> 7 [] g = "8" -> 8 [] g = "9" -> 9

\* t without a leading sign
Unsigned(t) == IF t # << >> /\ t[1] \in {"+", "-"} THEN SubSeq(t, 2, Len(t)) ELSE t

\* a decimal numeral: an optional sign, then digits with at most one point
\* and at least one digit
IsNumber(t) ==
    LET b == Unsigned(t)
    IN  /\ \A i \in 1..Len(b) : b[i] \in Numerals \cup {"."}
        /\ \E i \in 1..Len(b) : b[i] \in Numerals
        /\ \A i, j \in 1..Len(b) : (b[i] = "." /\ b[j] = ".") => i = j

\* the integer the digits of b spell, read left to right from acc
RECURSIVE Spelled(_, _)
Spelled(b, acc) ==
    IF b = << >> THEN acc
    ELSE Spelled(Tail(b), IF Head(b) = "." THEN acc ELSE 10 * acc + NumeralValue(Head(b)))

\* the decimal a numeral denotes, times 10^exp
NumberTimes(t, exp) ==
    LET b      == Unsigned(t)
        places == Cardinality({i \in 1..Len(b) : \E j \in 1..(i - 1) : b[j] = "."})
        mag    == Spelled(b, 0)
    IN  Norm(Num(IF t[1] = "-" THEN 0 - mag ELSE mag, exp - places))

Sentinel(t) == t = << >> \/ t = <<"-">> \/ t = <<"UFF0D">>

\* C14: commas are removed, exactly one multiplier is applied, chosen by
\* presence in the order 兆 (10^12), 億 (10^8), 万 (10^4), % (1), and the
\* result is the remaining number times it: "1,234" is 1234, "5億" is
\* 500000000, "12.5%" is 12.5.
C14_UnitMultiplier ==
    Parsed =>
        /\ IsNumber(Remainder(cell_text)) =>
              value = NumberTimes(Remainder(cell_text),
                                  IF UnitOf(cell_text) = 0 THEN 0
                                  ELSE UnitExponent[UnitOf(cell_text)])
        /\ cell_text = <<"1", ",", "2", "3", "4">> => value = Num(1234, 0)
        /\ cell_text = <<"5", "U5104">> => value = Num(5, 8)
        /\ cell_text = <<"1", "2", ".", "5", "%">> => value = Num(125, -1)

\* "5,%" is 5; "5億兆" is 0 * 10^12, 兆 being chosen before 億;
\* "-1,500万" is -15000000
C14_Witness ==
    /\ Parsed
    /\ cell_text = <<"5", ",", "%">>
    /\ value = Num(5, 0)

C14_WitnessPriority ==
    /\ Parsed
    /\ cell_text = <<"5", "U5104", "U5146">>
    /\ UnitOf(cell_text) = 1
    /\ value = Zero

C14_WitnessUnit ==
    /\ Parsed
    /\ cell_text = <<"-", "1", ",", "5", "0", "0", "U4E07">>
    /\ value = Num(-15, 6)

\* C15: "", "-" and "－" give 0.0, and so does every text whose remainder
\* after removing commas and the unit glyph is not a number, such as
\* "1兆2345億"; _parse_value always returns.
C15_NeverFails ==
    /\ pc \in {"parse", "parsed"}
    /\ Parsed =>
          /\ Sentinel(cell_text) => value = Zero
          /\ ~ IsNumber(Remainder(cell_text)) => value = Zero
          /\ cell_text = <<"1", "U5146", "2", "3", "4", "5", "U5104">> => value = Zero

\* "1兆2345億": 兆 is stripped, "12345億" is no number
C15_Witness ==
    /\ Parsed
    /\ cell_text = <<"1", "U5146", "2", "3", "4", "5", "U5104">>
    /\ Remainder(cell_text) = <<"1", "2", "3", "4", "5", "U5104">>
    /\ value = Zero

C15_WitnessDash ==
    /\ Parsed
    /\ cell_text = <<"UFF0D">>
    /\ value = Zero

----------------------------------------------------------------------------
(* Properties of the extraction *)

Extracted == pc \in {"have_data", "scored"}

\* the columns of the selected table's header row whose text contains an
\* alias of the metric, as 0-based indices
MatchingColumns(metric) ==
    { i - 1 : i \in { j \in 1..Len(table[1]) :
                        \E a \in 1..Len(Aliases[metric]) :
                            Contains(table[1][j], Aliases[metric][a]) } }

\* C1: every FinancialData the series builder returns has all nine metric
\* sequences of length len(fiscal_years), and a metric that is not bound in
\* the column map holds 0.0 at every position.
C1_LengthInvariant ==
    Extracted =>
        \A k \in RuleKeys :
            /\ Len(data[k]) = Len(data.fiscal_years)
            /\ k \notin DOMAIN header_map =>
                   \A i \in 1..Len(data[k]) : data[k][i] = Zero

\* two data rows of which the short one was skipped, under a partial map
\* that binds revenue only
C1_Witness ==
    /\ pc = "have_data"
    /\ Len(table) = 3
    /\ Len(table[3]) = 1
    /\ DOMAIN header_map = {"revenue"}
    /\ Len(data.fiscal_years) = 1
    /\ data.revenue # <<Zero>>
    /\ data.eps = <<Zero>>

\* C9: each metric is bound to the index of the leftmost header cell whose
\* text contains one of its aliases, and a metric none of whose aliases
\* occurs in any cell is absent from the column map.
C9_FirstMatchWins ==
    Extracted =>
        \A k \in RuleKeys :
            IF MatchingColumns(k) = {}
            THEN k \notin DOMAIN header_map
            ELSE /\ k \in DOMAIN header_map
                 /\ header_map[k] \in MatchingColumns(k)
                 /\ \A c \in MatchingColumns(k) : header_map[k] <= c

\* header "年度", "配当", "配当性向": dividend_ps keeps column 1 although
\* column 2 matches it too, and revenue is unbound
C9_Witness ==
    /\ pc = "have_data"
    /\ table[1] = <<YearMarker, DividendCell, PayoutRatioCell>>
    /\ MatchingColumns("dividend_ps") = {1, 2}
    /\ header_map["dividend_ps"] = 1
    /\ header_map["dividend_payout_ratio"] = 2
    /\ "revenue" \notin DOMAIN header_map

\* the largest column index the map binds, 0 for an empty map
MaxIndex ==
    IF DOMAIN header_map = {} THEN 0
    ELSE CHOOSE c \in {header_map[k] : k \in DOMAIN header_map} :
            \A k \in DOMAIN header_map : header_map[k] <= c

\* a data row with at least MaxIndex + 1 cells
Retained(row) == Len(row) >= MaxIndex + 1

\* the retained data rows of the selected table, in document order
RetainedRows == SelectSeq(Tail(table), Retained)

\* the table without its j-th row
WithoutRow(tbl, j) == SubSeq(tbl, 1, j - 1) \o SubSeq(tbl, j + 1, Len(tbl))

\* C12: fiscal_years and each of the nine metric sequences are the exact
\* reverse of the retained data rows of the newest-first table: the label
\* and the nine values at output position i come from the same source row.
C12_OldestFirst ==
    (Extracted /\ table # NoTable) =>
        LET n == Len(RetainedRows)
        IN  /\ Len(data.fiscal_years) = n
            /\ \A i \in 1..n :
                  LET row == RetainedRows[n + 1 - i]
                  IN  /\ data.fiscal_years[i] = row[1]
                      /\ \A k \in RuleKeys :
                            /\ Len(data[k]) = n
                            /\ data[k][i] =
                                  IF k \in DOMAIN header_map
                                  THEN parse_value(row[header_map[k] + 1])
                                  ELSE Zero

\* header "年度", "売上": rows 2022 then 2021 come out as 2021, 2022 with
\* their own revenues
C12_Witness ==
    /\ pc = "have_data"
    /\ Len(table) = 3
    /\ table[1] = <<YearMarker, SalesCell>>
    /\ Len(table[2]) = 2
    /\ Len(table[3]) = 2
    /\ table[2][1] = YearLabel(2)
    /\ table[3][1] = YearLabel(1)
    /\ data.fiscal_years = <<YearLabel(1), YearLabel(2)>>
    /\ data.revenue = <<parse_value(table[3][2]), parse_value(table[2][2])>>
    /\ data.revenue[1] # data.revenue[2]

\* C13: a data row with fewer than MaxIndex + 1 cells emits no label and no
\* value: the series has one entry per retained row and equals the series
\* of the same table with that row removed.
C13_ShortRowSkipped ==
    (Extracted /\ table # NoTable) =>
        /\ Len(data.fiscal_years) = Len(RetainedRows)
        /\ \A j \in 2..Len(table) :
              ~ Retained(table[j]) =>
                  build_series(request, WithoutRow(table, j), header_map) = data

\* a first data row holding its label only under a map that binds column
\* 1, followed by a full row
C13_Witness ==
    /\ pc = "have_data"
    /\ Len(table) = 3
    /\ MaxIndex >= 1
    /\ Len(table[2]) = 1
    /\ Retained(table[3])
    /\ data.fiscal_years = <<table[3][1]>>

\* every metric of the series is 0.0 in every year
AllZero(d) == \A k \in RuleKeys : \A i \in 1..Len(d[k]) : d[k][i] = Zero

\* C19: a series of at least two years whose metrics are all zeros scores
\* exactly 10, from dividend_payout_ratio alone, with roe and equity_ratio
\* at 0; a series of at least two years whose payout-ratio column is
\* unresolved gets the 10 points of dividend_payout_ratio.
C19_MissingDataRewarded ==
    (Extracted /\ Scored /\ EnoughHistory) =>
        /\ AllZero(data) =>
              /\ score.total_score = 10
              /\ \A k \in RuleKeys :
                    score.breakdown[k] = IF k = "dividend_payout_ratio" THEN 10 ELSE 0
        /\ (table # NoTable /\ "dividend_payout_ratio" \notin DOMAIN header_map) =>
              score.breakdown.dividend_payout_ratio = 10

\* a header of year markers only binds nothing: two years of zeros score 10
C19_Witness ==
    /\ Scored
    /\ table # NoTable
    /\ DOMAIN header_map = {}
    /\ Len(data.fiscal_years) = 2
    /\ AllZero(data)
    /\ score.total_score = 10
    /\ score.breakdown.roe = 0
    /\ score.breakdown.equity_ratio = 0

\* C10: no two metrics of the column map share a column: a header cell that
\* contains aliases of two unbound metrics binds only the first of them.
C10_NoSharedColumn ==
    Extracted =>
        \A k1, k2 \in DOMAIN header_map :
            k1 # k2 => header_map[k1] # header_map[k2]

----------------------------------------------------------------------------
(* Properties of scrape *)

\* the step is a call of scrape that went to the site
Fetching == pc = "request" /\ fetches' = fetches + 1

\* the positions of the tables of the page whose first row has a cell
\* "年度"
Qualifying ==
    { k \in 1..Len(document) :
        /\ document[k] # << >>
        /\ \E c \in 1..Len(document[k][1]) : document[k][1][c] = YearMarker }

FirstQualifying == CHOOSE k \in Qualifying : \A j \in Qualifying : k <= j

\* the 0-based columns of a header row whose text contains an alias of the
\* metric
HeaderMatches(header, metric) ==
    { c - 1 : c \in { j \in 1..Len(header) :
                        \E a \in 1..Len(Aliases[metric]) :
                            Contains(header[j], Aliases[metric][a]) } }

\* C11: a scrape that goes to the site selects the first table of the page
\* whose first row has the cell "年度", binds the columns from that
\* table's header alone and builds the series from that table alone; when
\* no table qualifies it ends in the error, returns no FinancialData and
\* leaves the cache as it was.
C11_TableLocator ==
    [][Fetching =>
          /\ pc' = "have_data" =>
                /\ Qualifying # {}
                /\ table' = document[FirstQualifying]
                /\ \A k \in RuleKeys :
                      IF HeaderMatches(table'[1], k) = {}
                      THEN k \notin DOMAIN header_map'
                      ELSE /\ k \in DOMAIN header_map'
                           /\ header_map'[k] \in HeaderMatches(table'[1], k)
                /\ data' = build_series(request, table', header_map')
          /\ Qualifying = {} =>
                /\ pc' = "error"
                /\ data' = NoData
                /\ table' = NoTable
                /\ cache' = cache]_vars

\* the third table of the page was selected although the fourth has the
\* marker too: revenue, which only the fourth table's header names, is
\* unbound
C11_Witness ==
    /\ pc = "have_data"
    /\ document = PageMulti
    /\ table = document[3]
    /\ 4 \in Qualifying
    /\ DOMAIN header_map = {"dividend_ps"}
    /\ Len(data.fiscal_years) = 1

\* no table of the page qualifies: the error, and no cache file
C11_WitnessNotFound ==
    /\ pc = "error"
    /\ document = PageNone
    /\ Qualifying = {}
    /\ fetches = 1
    /\ ~ cache[request].present
    /\ data = NoData

\* the cache file of the requested ticker exists, was written less than 24
\* hours ago and holds an object with a revenue field
Fresh ==
    /\ cache[request].present
    /\ clock - cache[request].mtime < 86400
    /\ cache[request].has_revenue

\* C18: a call of scrape returns the stored series without fetching exactly
\* when the ticker's cache file exists, is less than 24 hours old and has a
\* revenue field; otherwise it fetches, and after a successful build that
\* ticker's file, and no other, holds the series returned; nothing else
\* writes the cache, so a second call within 24 hours returns that series
\* without a fetch.
C18_CachePolicy ==
    [][/\ (pc = "request" /\ pc' # "request") =>
             /\ Fresh =>
                   /\ fetches' = fetches
                   /\ pc' = "have_data"
                   /\ data' = cache[request].payload
                   /\ cache' = cache
             /\ ~ Fresh => fetches' = fetches + 1
             /\ (~ Fresh /\ pc' = "have_data") =>
                   /\ cache'[request].present
                   /\ cache'[request].has_revenue
                   /\ cache'[request].payload = data'
                   /\ cache'[request].mtime = clock
                   /\ \A t \in Tickers \ {request} : cache'[t] = cache[t]
       /\ cache' # cache => (pc = "request" /\ ~ Fresh /\ pc' = "have_data")]_vars

\* a second call 23:59:59 after the save: the stored series came back and
\* the page was fetched once
C18_Witness ==
    /\ pc = "have_data"
    /\ fetches = 1
    /\ table = NoTable
    /\ clock - cache[request].mtime = 86399
    /\ data = cache[request].payload
    /\ Len(data.fiscal_years) = 2

\* a second call 24 hours after the save fetched again
C18_WitnessStale ==
    /\ pc = "have_data"
    /\ fetches = 2
    /\ table # NoTable
    /\ clock = 86401
    /\ cache[request].mtime = 86400
    /\ \A t \in Tickers \ {request} : ~ cache[t].present

====
